---- MODULE Spec2Model ----
(***************************************************************************)
(* Bulk edit job harness of olclient: AbstractBotJob (olclient/bots.py)    *)
(* driven by the example job TrimBot.run (examples/scripts/making_a_bot.py)*)
(* against the Open Library client (olclient/openlibrary.py).              *)
(*                                                                         *)
(* A state is a constructed job (limit, write_changes, changed), the       *)
(* position of its run (pc, nrows), what the last loop iteration read and  *)
(* did (row, live, events), and the requests the backing service has       *)
(* received so far (fetches, puts) together with the number of calls of    *)
(* AbstractBotJob.save (saves).                                            *)
(***************************************************************************)
EXTENDS Integers, Sequences, FiniteSets

VARIABLES
    argv,           \* the command line: [limit, write_changes]
    ctor,           \* the constructor's keyword arguments: [limit, write_changes]
    limit,          \* self.limit
    write_changes,  \* self.write_changes
    changed,        \* self.changed
    pc,             \* "constructed", "scanning", "exhausted", "exited", "aborted"
    nrows,          \* rows of the dump read so far
    row,            \* the row read by the last iteration
    live,           \* the answer of the service to the last iteration's fetch
    events,         \* what the last step logged and sent, in order
    fetches,        \* Edition.get calls made so far
    puts,           \* Edition.save calls (save_fn invocations) made so far
    saves,          \* AbstractBotJob.save calls made so far
    fn,             \* a helper of AbstractBotJob applied on its own: input, result
    call,           \* an operation of the OpenLibrary client in progress
    rerun,          \* two jobs run one after the other in one process
    entity          \* a common.Book or common.Author and its identifiers

\* the job and its run
job == <<argv, ctor, limit, write_changes, changed, pc, nrows, row, live,
         events, fetches, puts, saves>>

\* what the other specifications of this module look at
aux == <<fn, call, rerun, entity>>

vars == <<argv, ctor, limit, write_changes, changed, pc, nrows, row, live,
          events, fetches, puts, saves, fn, call, rerun, entity>>

-----------------------------------------------------------------------------
(* Bounds of the model *)

MaxLimit == 2       \* limits range over 0..MaxLimit
MaxRows == 3        \* a dump holds at most MaxRows rows
MaxRowLen == 5      \* a raw row given to process_row holds at most MaxRowLen characters
MaxDump == 2        \* a dump that is run over twice holds at most MaxDump rows

(* Program constants *)

ArgLimitDefault == 1    \* argparse default of --limit
CtorLimitDefault == 1   \* default of the constructor's limit parameter

-----------------------------------------------------------------------------
(* Text: titles are character sequences; " " is whitespace, "a" is not *)

Whitespace == {" "}

\* the titles rows and live records carry: clean ones (one with inner
\* whitespace) and ones with whitespace at an end or at both
Titles == {<<"a">>, <<"a", " ", "a">>, <<"a", " ">>, <<" ", "a", " ">>}

RECURSIVE lstrip(_)
lstrip(s) ==
    IF s # <<>> /\ Head(s) \in Whitespace THEN lstrip(Tail(s)) ELSE s

RECURSIVE rstrip(_)
rstrip(s) ==
    IF s # <<>> /\ s[Len(s)] \in Whitespace
    THEN rstrip(SubSeq(s, 1, Len(s) - 1))
    ELSE s

strip(s) == rstrip(lstrip(s))

needs_trim(edition_title) == strip(edition_title) # edition_title

-----------------------------------------------------------------------------
(* What a step logs and sends *)

MsgSuppressed == "Modification not made because write_changes is False."
MsgLimit == "Modification limit reached. Exiting script."
MsgDryRun == "dry-run set to TRUE. Script will run, but no external modifications will be made."
MsgAudit == "olid, old_title, title"
MsgWriteTrue == "write_changes is TRUE. Permanent modifications may be made."
MsgWriteFalse == "write_changes is FALSE. No external modifications will be made."

Ev(ev, msg, olid, old, new) ==
    [ev |-> ev, msg |-> msg, olid |-> olid, old |-> old, new |-> new]

LogEv(msg) == Ev("log", msg, 0, <<>>, <<>>)
AuditEv(olid, old, new) == Ev("log", MsgAudit, olid, old, new)
GetEv(olid) == Ev("get", "", olid, <<>>, <<>>)
\* a PUT of the title, with what the service made of it
PutEv(olid, title, outcome) == Ev("put", outcome, olid, <<>>, title)
ExitEv == Ev("exit", "", 0, <<>>, <<>>)

Count(s, P(_)) == Cardinality({i \in DOMAIN s : P(s[i])})

-----------------------------------------------------------------------------
(* AbstractBotJob.__init__ *)

Given(v) == <<v>>      \* an argument that was passed
NotGiven == <<>>       \* an argument that was left out

OptLimits == {NotGiven} \cup {Given(l) : l \in 0..MaxLimit}

ArgvSet == [limit : OptLimits, write_changes : BOOLEAN]
CtorSet == [limit : OptLimits, write_changes : BOOLEAN]

\* parser.add_argument('--limit', type=int, default=1): self.args.limit
ArgsLimit(a) == IF a.limit = NotGiven THEN ArgLimitDefault ELSE a.limit[1]

\* def __init__(self, ol=None, write_changes=False, limit=1, ...): limit
ParamLimit(c) == IF c.limit = NotGiven THEN CtorLimitDefault ELSE c.limit[1]

\* self.limit = getattr(self.args, 'limit', None) or limit
InitLimit(args_limit, param_limit) ==
    IF args_limit # 0 THEN args_limit ELSE param_limit

InitWriteChanges_and(param_write, args_write) == param_write /\ args_write

\* self.write_changes = write_changes or self.args.write_changes
InitWriteChanges(param_write, args_write) == param_write \/ args_write

-----------------------------------------------------------------------------
(* The dump and the backing service *)

EditionType == "/type/edition"

\* one row of the dump: whether field 4 parses as JSON, and what it holds
BadRow == [json_ok |-> FALSE, type |-> "", title |-> <<>>]

DumpRows ==
    {BadRow} \cup
    [json_ok : {TRUE}, type : {EditionType, "/type/work"}, title : Titles]

NoRow == [json_ok |-> FALSE, type |-> "none", title |-> <<>>]

\* the answer to GET /books/<olid>.json as Edition.get hands it on
FetchError == [status |-> "error", type |-> "", title |-> <<>>]

LiveRecords ==
    {FetchError} \cup
    [status : {"ok"}, type : {EditionType, "/type/work"}, title : Titles] \cup
    {[status |-> "ok", type |-> "/type/delete", title |-> <<>>]}

NoLive == [status |-> "none", type |-> "", title |-> <<>>]

\* the outcome of session.put in Edition.save: a response (whatever its
\* status) is returned, a request exception is raised
PutOutcomes == {"ok", "http_error", "exception"}

-----------------------------------------------------------------------------
(* AbstractBotJob.save *)

\* a save_fn: what invoking it sends, and whether it raises
SaveFn(olid, title, outcome) ==
    [events |-> <<PutEv(olid, title, outcome)>>,
     raises |-> (outcome = "exception")]

DryRunGate_ungated(write, save_fn) ==
    [events |-> save_fn.events, invoked |-> 1, raised |-> save_fn.raises]

\* if self.write_changes: save_fn()  else: self.logger.info(...)
DryRunGate(write, save_fn) ==
    IF write
    THEN [events |-> save_fn.events, invoked |-> 1, raised |-> save_fn.raises]
    ELSE [events |-> <<LogEv(MsgSuppressed)>>, invoked |-> 0, raised |-> FALSE]

Incremented_lost(c) == c

\* self.changed += 1
Incremented(c) == c + 1

LimitReached_gt(lim, c) == lim # 0 /\ c > lim

LimitReached_late(lim, c) == lim # 0 /\ c > lim + 1

LimitReached_zero_counts(lim, c) == c >= lim

\* if self.limit and self.changed >= self.limit
LimitReached(lim, c) == lim # 0 /\ c >= lim

save_counts_raised(self, save_fn) ==
    LET gate == DryRunGate(self.write_changes, save_fn)
        c == Incremented(self.changed)
        stop == LimitReached(self.limit, c)
    IN  [changed |-> c,
         events |-> gate.events \o
                    (IF stop THEN <<LogEv(MsgLimit), ExitEv>> ELSE <<>>),
         invoked |-> gate.invoked, exit |-> stop /\ ~gate.raised,
         raised |-> gate.raised]

save(self, save_fn) ==
    LET gate == DryRunGate(self.write_changes, save_fn)
        c == Incremented(self.changed)
        stop == LimitReached(self.limit, c)
    IN  IF gate.raised
        THEN [changed |-> self.changed, events |-> gate.events,
              invoked |-> gate.invoked, exit |-> FALSE, raised |-> TRUE]
        ELSE [changed |-> c,
              events |-> gate.events \o
                         (IF stop THEN <<LogEv(MsgLimit), ExitEv>> ELSE <<>>),
              invoked |-> gate.invoked, exit |-> stop, raised |-> FALSE]

-----------------------------------------------------------------------------
(* TrimBot.run: one iteration of the loop over the dump *)

Self == [limit |-> limit, write_changes |-> write_changes, changed |-> changed]

Outcome(p, c, ev, l, f, w, s) ==
    [pc |-> p, changed |-> c, events |-> ev, live |-> l,
     fetched |-> f, put |-> w, saved |-> s]

Mutate_no_audit(self, olid, l, w) ==
    LET title == strip(l.title)
        res == save(self, SaveFn(olid, title, w))
    IN  Outcome(IF res.raised THEN "aborted"
                ELSE IF res.exit THEN "exited" ELSE "scanning",
                res.changed, <<GetEv(olid)>> \o res.events,
                l, 1, res.invoked, 1)

Mutate_audit_last(self, olid, l, w) ==
    LET old_title == l.title
        title == strip(l.title)
        res == save(self, SaveFn(olid, title, w))
    IN  Outcome(IF res.raised THEN "aborted"
                ELSE IF res.exit THEN "exited" ELSE "scanning",
                res.changed,
                <<GetEv(olid)>> \o res.events \o <<AuditEv(olid, old_title, title)>>,
                l, 1, res.invoked, 1)

\* lines 49-53: the title is stripped, the change is logged, save is called
Mutate(self, olid, l, w) ==
    LET old_title == l.title
        title == strip(l.title)
        res == save(self, SaveFn(olid, title, w))
    IN  Outcome(IF res.raised THEN "aborted"
                ELSE IF res.exit THEN "exited" ELSE "scanning",
                res.changed,
                <<GetEv(olid), AuditEv(olid, old_title, title)>> \o res.events,
                l, 1, res.invoked, 1)

LiveVerify_no_recheck(self, olid, l, w) ==
    IF l.status = "error"
    THEN Outcome("aborted", self.changed, <<GetEv(olid)>>, l, 1, 0, 0)
    ELSE Mutate(self, olid, l, w)

\* lines 43-47: the live record is fetched and checked again
LiveVerify(self, olid, l, w) ==
    IF l.status = "error"
    THEN Outcome("aborted", self.changed, <<GetEv(olid)>>, l, 1, 0, 0)
    ELSE IF l.type # EditionType
    THEN Outcome("scanning", self.changed, <<GetEv(olid)>>, l, 1, 0, 0)
    ELSE IF ~needs_trim(l.title)
    THEN Outcome("scanning", self.changed, <<GetEv(olid)>>, l, 1, 0, 0)
    ELSE Mutate(self, olid, l, w)

Iteration_skips_bad_row(self, olid, r, l, w) ==
    IF ~r.json_ok
    THEN Outcome("scanning", self.changed, <<>>, NoLive, 0, 0, 0)
    ELSE IF r.type # EditionType
    THEN Outcome("scanning", self.changed, <<>>, NoLive, 0, 0, 0)
    ELSE IF ~needs_trim(r.title)
    THEN Outcome("scanning", self.changed, <<>>, NoLive, 0, 0, 0)
    ELSE LiveVerify(self, olid, l, w)

Iteration_no_type_check(self, olid, r, l, w) ==
    IF ~r.json_ok
    THEN Outcome("aborted", self.changed, <<>>, NoLive, 0, 0, 0)
    ELSE IF ~needs_trim(r.title)
    THEN Outcome("scanning", self.changed, <<>>, NoLive, 0, 0, 0)
    ELSE LiveVerify(self, olid, l, w)

\* lines 36-41: the row is decoded and checked against the dump's snapshot.
\* r: the row read; l: the service's answer to the fetch, if one is made;
\* w: the outcome of the put, if one is made
Iteration(self, olid, r, l, w) ==
    IF ~r.json_ok
    THEN Outcome("aborted", self.changed, <<>>, NoLive, 0, 0, 0)
    ELSE IF r.type # EditionType
    THEN Outcome("scanning", self.changed, <<>>, NoLive, 0, 0, 0)
    ELSE IF ~needs_trim(r.title)
    THEN Outcome("scanning", self.changed, <<>>, NoLive, 0, 0, 0)
    ELSE LiveVerify(self, olid, l, w)

\* the rows that reach the fetch, and the answers that reach the mutation:
\* an answer is drawn only for a fetch that is made, a put outcome only for
\* a put that is sent
LocalMatch(r) == r.json_ok /\ r.type = EditionType /\ needs_trim(r.title)

LiveMatch(l) == l.status = "ok" /\ l.type = EditionType /\ needs_trim(l.title)

-----------------------------------------------------------------------------
(* The declaration of the mode, and the states of the variables that a
   specification does not use *)

write_changes_declaration_swapped(self) ==
    IF self.write_changes THEN <<LogEv(MsgWriteFalse)>>
                          ELSE <<LogEv(MsgWriteTrue)>>

\* AbstractBotJob.write_changes_declaration (dry_run_declaration calls it)
write_changes_declaration(self) ==
    IF self.write_changes THEN <<LogEv(MsgWriteTrue)>>
                          ELSE <<LogEv(MsgWriteFalse)>>

\* self.dry_run, read by TrimBot.run: the job runs dry when writes are off
dry_run(self) == ~self.write_changes

NoFn == [op |-> "none"]
NoCall == [op |-> "none"]
NoRerun == [run |-> 0]
NoEntity == [state |-> "none"]

-----------------------------------------------------------------------------
(* The job: construction, then the run *)

Init ==
    /\ argv \in ArgvSet
    /\ ctor \in CtorSet
    /\ limit = InitLimit(ArgsLimit(argv), ParamLimit(ctor))
    /\ write_changes = InitWriteChanges(ctor.write_changes, argv.write_changes)
    /\ changed = 0
    /\ pc = "constructed"
    /\ nrows = 0
    /\ row = NoRow
    /\ live = NoLive
    /\ events = <<>>
    /\ fetches = 0
    /\ puts = 0
    /\ saves = 0
    /\ fn = NoFn
    /\ call = NoCall
    /\ rerun = NoRerun
    /\ entity = NoEntity

\* write_changes_declaration() or dry_run_declaration(), called by a script
\* before it runs the job
Declare ==
    /\ pc = "constructed"
    /\ events' = write_changes_declaration(Self)
    /\ UNCHANGED <<argv, ctor, limit, write_changes, changed, pc, nrows, row,
                   live, fetches, puts, saves>>
    /\ UNCHANGED aux

\* run() up to the first row: the dry-run line, then the dump is opened.
\* TrimBot reads self.dry_run, which AbstractBotJob does not set; it is taken
\* to be the negation of write_changes.
RunStart ==
    /\ pc = "constructed"
    /\ pc' = "scanning"
    /\ events' = IF dry_run(Self) THEN <<LogEv(MsgDryRun)>> ELSE <<>>
    /\ UNCHANGED <<argv, ctor, limit, write_changes, changed, nrows, row,
                   live, fetches, puts, saves>>
    /\ UNCHANGED aux

\* for row in fin: ... (one row, to the end of the loop body)
ReadRow ==
    /\ pc = "scanning"
    /\ nrows < MaxRows
    /\ \E r \in DumpRows :
       \E l \in (IF LocalMatch(r) THEN LiveRecords ELSE {NoLive}) :
       \E w \in (IF LocalMatch(r) /\ LiveMatch(l) /\ write_changes
                 THEN PutOutcomes ELSE {"none"}) :
         LET out == Iteration(Self, nrows + 1, r, l, w)
         IN  /\ nrows' = nrows + 1
             /\ row' = r
             /\ live' = out.live
             /\ events' = out.events
             /\ changed' = out.changed
             /\ pc' = out.pc
             /\ fetches' = fetches + out.fetched
             /\ puts' = puts + out.put
             /\ saves' = saves + out.saved
    /\ UNCHANGED <<argv, ctor, limit, write_changes>>
    /\ UNCHANGED aux

\* the dump is exhausted: the loop and run() end
EndOfFile ==
    /\ pc = "scanning"
    /\ pc' = "exhausted"
    /\ events' = <<>>
    /\ UNCHANGED <<argv, ctor, limit, write_changes, changed, nrows, row,
                   live, fetches, puts, saves>>
    /\ UNCHANGED aux

Next == Declare \/ RunStart \/ ReadRow \/ EndOfFile

Spec == Init /\ [][Next]_vars

TypeOK ==
    /\ argv \in ArgvSet /\ ctor \in CtorSet
    /\ limit \in 0..MaxLimit /\ write_changes \in BOOLEAN
    /\ changed \in 0..MaxRows
    /\ pc \in {"constructed", "scanning", "exhausted", "exited", "aborted"}
    /\ nrows \in 0..MaxRows
    /\ row \in DumpRows \cup {NoRow}
    /\ live \in LiveRecords \cup {NoLive}
    /\ fetches \in 0..MaxRows /\ puts \in 0..MaxRows /\ saves \in 0..MaxRows

-----------------------------------------------------------------------------
(* AbstractBotJob.process_row: a raw row is text (str) or its bytes *)

Tab == "\t"

\* the characters of raw rows: the two delimiters, a digit, a letter
RowChars == {Tab, ",", "1", "x"}

Delimiters == {Tab, ","}

\* UTF-8 of the characters of raw rows; BadByte is no UTF-8 at all
Ord(c) == CASE c = Tab -> 9 [] c = "," -> 44 [] c = "1" -> 49 [] c = "x" -> 120

Chr(b) == CASE b = 9 -> Tab [] b = 44 -> "," [] b = 49 -> "1" [] b = 120 -> "x"

BadByte == 255

RowBytes == {9, 44, 49, 120}

Texts(n) == UNION {[1..k -> RowChars] : k \in 0..n}

encode(t) == [i \in 1..Len(t) |-> Ord(t[i])]

StrRow(t) == [kind |-> "str", data |-> t]
BytesRow(b) == [kind |-> "bytes", data |-> b]

RawRows ==
    {StrRow(t) : t \in Texts(MaxRowLen)} \cup
    {BytesRow(encode(t)) : t \in Texts(MaxRowLen)} \cup
    {BytesRow(<<BadByte>> \o encode(t)) : t \in Texts(MaxRowLen - 1)}

\* bytes.decode(): UnicodeDecodeError on bytes that are not UTF-8
decode(b) ==
    IF \A i \in 1..Len(b) : b[i] \in RowBytes
    THEN [ok |-> TRUE, text |-> [i \in 1..Len(b) |-> Chr(b[i])]]
    ELSE [ok |-> FALSE, text |-> <<>>]

\* str.split(delimiter), a delimiter of one character
RECURSIVE split(_, _)
split(t, d) ==
    IF \A i \in 1..Len(t) : t[i] # d
    THEN <<t>>
    ELSE LET i == CHOOSE k \in 1..Len(t) :
                      t[k] = d /\ \A j \in 1..(k - 1) : t[j] # d
         IN  <<SubSeq(t, 1, i - 1)>> \o split(SubSeq(t, i + 1, Len(t)), d)

\* json.loads on the JSON texts these characters can spell: an integer
\* between optional whitespace
JsonWhitespace == {" ", Tab, "\n", "\r"}

RECURSIVE skip_ws(_)
skip_ws(t) ==
    IF t # <<>> /\ Head(t) \in JsonWhitespace THEN skip_ws(Tail(t)) ELSE t

RECURSIVE scan_int(_, _)
scan_int(t, acc) ==
    IF t # <<>> /\ Head(t) = "1"
    THEN scan_int(Tail(t), 10 * acc + 1)
    ELSE [value |-> acc, rest |-> t]

json_loads(t) ==
    LET body == skip_ws(t)
        num == scan_int(body, 0)
    IN  IF body # <<>> /\ Head(body) = "1" /\ skip_ws(num.rest) = <<>>
        THEN [ok |-> TRUE, value |-> num.value]
        ELSE [ok |-> FALSE, value |-> 0]

Returned(fields, parsed) ==
    [raised |-> "none", fields |-> fields, parsed |-> parsed]
Raised(error) == [raised |-> error, fields |-> <<>>, parsed |-> 0]

process_row_no_decode(raw, delimiter) ==
    LET fields == split(raw.data, delimiter)
    IN  IF raw.kind = "bytes" THEN Raised("TypeError")
        ELSE IF Len(fields) < 5 THEN Raised("IndexError")
        ELSE IF ~json_loads(fields[5]).ok THEN Raised("JSONDecodeError")
        ELSE Returned(fields, json_loads(fields[5]).value)

process_row_swallows(raw, delimiter) ==
    LET dec == IF raw.kind = "bytes" THEN decode(raw.data)
               ELSE [ok |-> TRUE, text |-> raw.data]
        fields == split(dec.text, delimiter)
    IN  IF ~dec.ok THEN Raised("UnicodeDecodeError")
        ELSE IF Len(fields) < 5 THEN Returned(fields, 0)
        ELSE Returned(fields, json_loads(fields[5]).value)

\* try: row = row.decode().split(delimiter)
\* except AttributeError: row = row.split(delimiter)
\* return row, json.loads(row[4])
process_row(raw, delimiter) ==
    LET dec == IF raw.kind = "bytes" THEN decode(raw.data)
               ELSE [ok |-> TRUE, text |-> raw.data]
        fields == split(dec.text, delimiter)
    IN  IF ~dec.ok THEN Raised("UnicodeDecodeError")
        ELSE IF Len(fields) < 5 THEN Raised("IndexError")
        ELSE IF ~json_loads(fields[5]).ok THEN Raised("JSONDecodeError")
        ELSE Returned(fields, json_loads(fields[5]).value)

-----------------------------------------------------------------------------
(* AbstractBotJob._str2bool *)

Lowers == <<"a", "e", "f", "l", "n", "o", "r", "s", "t", "u", "y">>
Uppers == <<"A", "E", "F", "L", "N", "O", "R", "S", "T", "U", "Y">>

\* str.lower() and str.upper(), character by character
lower_char(c) ==
    IF \E i \in DOMAIN Uppers : Uppers[i] = c
    THEN Lowers[CHOOSE i \in DOMAIN Uppers : Uppers[i] = c]
    ELSE c

upper_char(c) ==
    IF \E i \in DOMAIN Lowers : Lowers[i] = c
    THEN Uppers[CHOOSE i \in DOMAIN Lowers : Lowers[i] = c]
    ELSE c

lower(t) == [i \in 1..Len(t) |-> lower_char(t[i])]

TruthyValues ==
    {<<"y", "e", "s">>, <<"t", "r", "u", "e">>, <<"t">>, <<"y">>, <<"1">>}
FalseyValues ==
    {<<"n", "o">>, <<"f", "a", "l", "s", "e">>, <<"f">>, <<"n">>, <<"0">>}

\* a word in every mix of upper and lower case
Cased(w) ==
    {[i \in 1..Len(w) |-> IF i \in U THEN upper_char(w[i]) ELSE w[i]] :
        U \in SUBSET (1..Len(w))}

OtherStrings ==
    {<<>>, <<"x">>, <<"2">>, <<"o", "n">>, <<"y", "e">>, <<"y", "e", "s", "s">>,
     <<"t", "r", "u">>, <<"n", "o", "0">>, <<"1", "0">>, <<" ", "y">>}

Str2BoolInputs ==
    {[kind |-> "bool", bool |-> b, text |-> <<>>] : b \in BOOLEAN} \cup
    {[kind |-> "str", bool |-> FALSE, text |-> t] :
        t \in OtherStrings \cup UNION {Cased(w) : w \in TruthyValues \cup FalseyValues}}

BoolResult(b) == [raised |-> "none", value |-> b]
BoolError == [raised |-> "ArgumentTypeError", value |-> FALSE]

str2bool_case_sensitive(value) ==
    IF value.kind = "bool" THEN BoolResult(value.bool)
    ELSE IF value.text \in TruthyValues THEN BoolResult(TRUE)
    ELSE IF value.text \in FalseyValues THEN BoolResult(FALSE)
    ELSE BoolError

\* AbstractBotJob._str2bool
str2bool(value) ==
    IF value.kind = "bool" THEN BoolResult(value.bool)
    ELSE IF lower(value.text) \in TruthyValues THEN BoolResult(TRUE)
    ELSE IF lower(value.text) \in FalseyValues THEN BoolResult(FALSE)
    ELSE BoolError

-----------------------------------------------------------------------------
(* The helpers applied on their own, to any input *)

\* a job built with no arguments that has not run
\* Work and Edition of the client: construction and json()

\* Python values: None, a str, an int (in digits), a list, a /type/text object
None == [t |-> "None", v |-> ""]
Str(x) == [t |-> "str", v |-> x]
PyInt(x) == [t |-> "int", v |-> x]
List(x) == [t |-> "list", v |-> x]
TextObj(x) == [t |-> "text", v |-> x]

\* the truth value of a Python value (the 'if v' of json())
Truthy(x) ==
    CASE x.t = "None" -> FALSE
      [] x.t = "str" -> x.v # ""
      [] x.t = "int" -> x.v # "0"
      [] x.t = "list" -> x.v # <<>>
      [] OTHER -> TRUE

get_text_value_keeps_object(text) == text

\* try: return text.get('value')  except: return text
get_text_value(text) == IF text.t = "text" THEN Str(text.v) ELSE text

\* prefix + olid, and the dict {'key': prefix + olid}
Path(prefix, olid) == [t |-> "str", v |-> <<prefix, olid>>]
KeyRef(prefix, olid) == [t |-> "dict", v |-> <<prefix, olid>>]

TextInputs == {None, Str(""), Str("d"), TextObj("d"), TextObj("")}

\* keyword arguments of a dict: kwargs.pop(k, None)
Pop(kwargs, k) == IF k \in DOMAIN kwargs THEN kwargs[k] ELSE None

\* Work.__init__(olid, **kwargs): the object's __dict__
WorkInit(olid, kwargs) ==
    [k \in {"olid", "_editions", "description", "notes"} |->
        CASE k = "olid" -> Str(olid)
          [] k = "_editions" -> List(<<>>)
          [] k = "description" -> get_text_value(Pop(kwargs, "description"))
          [] k = "notes" -> get_text_value(Pop(kwargs, "notes"))]

\* Edition.__init__ and Book.__init__: the object's __dict__
EditionInit(work_olid, edition_olid, title, pages, authors, cover, kwargs) ==
    [k \in {"_work", "work_olid", "olid", "description", "notes", "title",
            "pages", "authors", "cover"} |->
        CASE k = "_work" -> None
          [] k = "work_olid" -> work_olid
          [] k = "olid" -> Str(edition_olid)
          [] k = "description" -> get_text_value(Pop(kwargs, "description"))
          [] k = "notes" -> get_text_value(Pop(kwargs, "notes"))
          [] k = "title" -> Str(title)
          [] k = "pages" -> pages
          [] k = "authors" -> List(authors)
          [] k = "cover" -> cover]

\* the text fields of json(): a truthy one is wrapped in a /type/text object
Wrapped(data, k) == IF Truthy(data[k]) THEN TextObj(data[k].v) ELSE data[k]

WorkJson(self) ==
    LET exclude == {"_editions", "olid"}
        kept == {k \in DOMAIN self : Truthy(self[k]) /\ k \notin exclude}
    IN  [k \in kept \cup {"key", "type"} |->
            CASE k = "key" -> Path("/works/", self["olid"].v)
              [] k = "type" -> KeyRef("/type/", "work")
              [] k \in {"description", "notes"} -> Wrapped(self, k)
              [] OTHER -> self[k]]

EditionJson(self) ==
    LET exclude == {"_work", "olid", "work_olid", "pages"}
        kept == {k \in DOMAIN self : Truthy(self[k]) /\ k \notin exclude}
        keys == kept \cup {"key", "type"}
                \cup (IF Truthy(self["pages"]) THEN {"number_of_pages"} ELSE {})
                \cup (IF Truthy(self["work_olid"]) THEN {"works"} ELSE {})
    IN  [k \in keys |->
            CASE k = "key" -> Path("/books/", self["olid"].v)
              [] k = "type" -> KeyRef("/type/", "edition")
              [] k = "number_of_pages" -> self["pages"]
              [] k = "works" -> List(<<KeyRef("/works/", self["work_olid"].v)>>)
              [] k = "authors" ->
                   List([i \in DOMAIN self["authors"].v |->
                            KeyRef("/authors/", self["authors"].v[i])])
              [] k \in {"description", "notes"} -> Wrapped(self, k)
              [] OTHER -> self[k]]

AuthorLists == {<<>>, <<"OL1A">>, <<"OL1A", "OL2A">>}

JsonCalls ==
    {[op |-> "json", cls |-> "Work", work_olid |-> Str("OL1W"),
      pages |-> None, authors |-> <<>>, cover |-> None,
      kwargs |-> [k \in {"description", "notes"} |->
                     IF k = "description" THEN d ELSE n],
      done |-> FALSE] : d \in TextInputs, n \in TextInputs} \cup
    {[op |-> "json", cls |-> "Edition", work_olid |-> w, pages |-> p,
      authors |-> a, cover |-> c,
      kwargs |-> [k \in {"description", "notes"} |->
                     IF k = "description" THEN d ELSE n],
      done |-> FALSE] :
        w \in {None, Str("OL1W")}, p \in {None, PyInt("3")}, a \in AuthorLists,
        c \in {None, Str(""), Str("c.jpg")},
        d \in TextInputs, n \in TextInputs}

Built(c) ==
    IF c.cls = "Work" THEN WorkInit("OL1W", c.kwargs)
    ELSE EditionInit(c.work_olid, "OL1M", "t", c.pages, c.authors, c.cover,
                     c.kwargs)

Json(cls, self) == IF cls = "Work" THEN WorkJson(self) ELSE EditionJson(self)

JobIdle ==
    /\ argv = [limit |-> NotGiven, write_changes |-> FALSE]
    /\ ctor = [limit |-> NotGiven, write_changes |-> FALSE]
    /\ limit = InitLimit(ArgsLimit(argv), ParamLimit(ctor))
    /\ write_changes = InitWriteChanges(ctor.write_changes, argv.write_changes)
    /\ changed = 0
    /\ pc = "constructed"
    /\ nrows = 0
    /\ row = NoRow
    /\ live = NoLive
    /\ events = <<>>
    /\ fetches = 0
    /\ puts = 0
    /\ saves = 0

FnCalls ==
    {[op |-> "process_row", row |-> r, delimiter |-> d, done |-> FALSE] :
        r \in RawRows, d \in Delimiters} \cup
    {[op |-> "_str2bool", value |-> v, done |-> FALSE] : v \in Str2BoolInputs}
    \cup JsonCalls

InitHelpers ==
    /\ JobIdle
    /\ fn \in FnCalls
    /\ call = NoCall
    /\ rerun = NoRerun
    /\ entity = NoEntity

ApplyProcessRow ==
    /\ fn.op = "process_row" /\ ~fn.done
    /\ fn' = [op |-> fn.op, row |-> fn.row, delimiter |-> fn.delimiter,
              done |-> TRUE, out |-> process_row(fn.row, fn.delimiter)]
    /\ UNCHANGED <<job, call, rerun, entity>>

ApplyStr2Bool ==
    /\ fn.op = "_str2bool" /\ ~fn.done
    /\ fn' = [op |-> fn.op, value |-> fn.value, done |-> TRUE,
              out |-> str2bool(fn.value)]
    /\ UNCHANGED <<job, call, rerun, entity>>

\* an entity is built, json() is taken, and an entity is built again from
\* the description and notes of that json
ApplyJson ==
    /\ fn.op = "json" /\ ~fn.done
    /\ LET self == Built(fn)
           data == Json(fn.cls, self)
       IN  fn' = [op |-> "json", cls |-> fn.cls, call |-> fn, done |-> TRUE,
                  self |-> self, out |-> data,
                  again |-> Built([fn EXCEPT !.kwargs = data])]
    /\ UNCHANGED <<job, call, rerun, entity>>

NextHelpers == ApplyProcessRow \/ ApplyStr2Bool \/ ApplyJson

SpecHelpers == InitHelpers /\ [][NextHelpers]_vars

-----------------------------------------------------------------------------
(* Two jobs of the same name, built and run one after the other in one
   process, dry, over the same dump and the same live records.
   setup_logger adds a console handler and a file handler to the logger
   "jobs.<job_name>" each time a job is built; a line logged is written once
   by every console handler of the logger. *)

\* logger.addHandler(console_handler)
handlers_after_setup(n) == n + 1

RECURSIVE Copies(_, _)
Copies(e, n) == IF n = 0 THEN <<>> ELSE <<e>> \o Copies(e, n - 1)

\* what the console shows of the events of a step
RECURSIVE Emitted(_, _)
Emitted(evs, n) ==
    IF evs = <<>> THEN <<>>
    ELSE (IF Head(evs).ev = "log" THEN Copies(Head(evs), n) ELSE <<>>)
         \o Emitted(Tail(evs), n)

\* a row of the dump with the live record its fetch would find
DumpEntries ==
    {[row |-> r, live |-> l] : r \in DumpRows, l \in LiveRecords \cup {NoLive}}

FixedDumps ==
    UNION {[1..k -> {e \in DumpEntries :
                        IF LocalMatch(e.row) THEN e.live # NoLive
                                             ELSE e.live = NoLive}] :
           k \in 0..MaxDump}

ConsoleAdd(out, run, lines) == [out EXCEPT ![run] = out[run] \o lines]

InitTwice ==
    /\ argv \in {a \in ArgvSet : ~a.write_changes}
    /\ ctor = [limit |-> Given(0), write_changes |-> FALSE]
    /\ limit = InitLimit(ArgsLimit(argv), ParamLimit(ctor))
    /\ write_changes = InitWriteChanges(ctor.write_changes, argv.write_changes)
    /\ changed = 0
    /\ pc = "constructed"
    /\ nrows = 0
    /\ row = NoRow
    /\ live = NoLive
    /\ events = <<>>
    /\ fetches = 0
    /\ puts = 0
    /\ saves = 0
    /\ fn = NoFn
    /\ call = NoCall
    /\ entity = NoEntity
    /\ \E d \in FixedDumps :
         rerun = [run |-> 1, handlers |-> handlers_after_setup(0),
                  dump |-> d, console |-> <<(<<>>), (<<>>)>>]

TwiceStart ==
    /\ pc = "constructed"
    /\ pc' = "scanning"
    /\ events' = IF dry_run(Self) THEN <<LogEv(MsgDryRun)>> ELSE <<>>
    /\ rerun' = [rerun EXCEPT !.console =
                    ConsoleAdd(rerun.console, rerun.run,
                               Emitted(events', rerun.handlers))]
    /\ UNCHANGED <<argv, ctor, limit, write_changes, changed, nrows, row,
                   live, fetches, puts, saves, fn, call, entity>>

TwiceRow ==
    /\ pc = "scanning"
    /\ nrows < Len(rerun.dump)
    /\ LET e == rerun.dump[nrows + 1]
           out == Iteration(Self, nrows + 1, e.row, e.live, "ok")
       IN  /\ nrows' = nrows + 1
           /\ row' = e.row
           /\ live' = out.live
           /\ events' = out.events
           /\ changed' = out.changed
           /\ pc' = out.pc
           /\ fetches' = fetches + out.fetched
           /\ puts' = puts + out.put
           /\ saves' = saves + out.saved
           /\ rerun' = [rerun EXCEPT !.console =
                           ConsoleAdd(rerun.console, rerun.run,
                                      Emitted(out.events, rerun.handlers))]
    /\ UNCHANGED <<argv, ctor, limit, write_changes, fn, call, entity>>

TwiceEnd ==
    /\ pc = "scanning"
    /\ nrows = Len(rerun.dump)
    /\ pc' = "exhausted"
    /\ events' = <<>>
    /\ UNCHANGED <<argv, ctor, limit, write_changes, changed, nrows, row,
                   live, fetches, puts, saves, fn, call, rerun, entity>>

\* the first run came to the end of the dump (sys.exit and an exception end
\* the process); the second job is built, with the same arguments
TwiceAgain ==
    /\ pc = "exhausted"
    /\ rerun.run = 1
    /\ rerun' = [rerun EXCEPT !.run = 2,
                              !.handlers = handlers_after_setup(rerun.handlers)]
    /\ changed' = 0
    /\ pc' = "constructed"
    /\ nrows' = 0
    /\ row' = NoRow
    /\ live' = NoLive
    /\ events' = <<>>
    /\ UNCHANGED <<argv, ctor, limit, write_changes, fetches, puts, saves,
                   fn, call, entity>>

NextTwice == TwiceStart \/ TwiceRow \/ TwiceEnd \/ TwiceAgain

SpecTwice == InitTwice /\ [][NextTwice]_vars

-----------------------------------------------------------------------------
(* The client's requests to the service: OpenLibrary.get, the entity saves,
   delete, save_many, book creation and login.  A request decorated with
   backoff.on_exception and BACKOFF_KWARGS is tried again after an exception,
   unless giveup says no or max_tries attempts were made. *)

max_tries == 5

Statuses == {200, 404, 500}

\* what one request comes to: a response with a status, or an exception of
\* requests raised without any response (connection failure)
Answer(status) == [kind |-> "response", status |-> status]
NoAnswer == [kind |-> "error", status |-> 0]
Answers == {Answer(st) : st \in Statuses} \cup {NoAnswer}

giveup_never(e) == FALSE

\* 'giveup': hasattr(e.response, 'status_code') and 400 <= status < 500
giveup(e) == e.kind = "response" /\ 400 <= e.status /\ e.status < 500

\* response.raise_for_status()
raise_for_status(a) == a.kind = "response" /\ a.status >= 400

GetOps == {"get_edition", "get_work", "get_author"}
SaveOps == {"edition_save", "work_save", "author_save", "delete_save",
            "redirect_save", "delete", "save_many"}
\* Edition.get with a bibliographic key alone, and with no identifier at all
BibkeyOps == {"get_by_bibkey", "get_no_identifier"}
ClientOps == GetOps \cup SaveOps \cup BibkeyOps
             \cup {"get_other", "create_book", "login"}

\* the function that sends the request of an operation in a phase
Request(op, phase) ==
    CASE phase \in {"lookup", "record", "author"} -> "_get_ol_response"
      [] op = "create_book" -> "_create_book_post"
      [] op = "login" -> "_login"
      [] op = "save_many" -> "session.post"
      [] OTHER -> "session.put"

\* a PUT or POST that changes records of the service
Mutating(req) == req \in {"session.put", "session.post", "_create_book_post"}

Decorated_all(req) == TRUE

\* @backoff.on_exception(on_giveup=err, **BACKOFF_KWARGS)
Decorated(req) == req \in {"_get_ol_response", "_create_book_post", "_login"}

Raises_no_raise_for_status(req, a) == a.kind = "error"

\* the attempt ends in an exception
Raises(req, a) ==
    \/ a.kind = "error"
    \/ req = "_get_ol_response" /\ raise_for_status(a)

Result(kind) == [kind |-> kind, status |-> 0]
HTTPError(status) == [kind |-> "HTTPError", status |-> status]

\* the exception of an attempt
Exc(a) == IF a.kind = "response" THEN HTTPError(a.status)
             ELSE Result("RequestException")

FirstPhase_no_lookup(op) ==
    IF op \in GetOps \cup {"get_by_bibkey"} THEN "record"
    ELSE IF op = "create_book" THEN "post" ELSE "send"

FirstPhase(op) == IF op \in GetOps THEN "record"
                  ELSE IF op = "get_by_bibkey" THEN "lookup"
                  ELSE IF op = "create_book" THEN "post" ELSE "send"

\* the olid an operation is called with, "" if it has none yet
GivenOlid(op) == IF op \in GetOps THEN "OL1" ELSE ""

InitClient ==
    /\ JobIdle
    /\ fn = NoFn
    /\ call = NoCall
    /\ rerun = NoRerun
    /\ entity = NoEntity

\* a client operation is called; OpenLibrary.get of an olid that ends in
\* none of m, w, a returns None at once
Invoke ==
    /\ call = NoCall
    /\ \E op \in ClientOps :
         call' = IF op = "get_other"
                 THEN [op |-> op, phase |-> "none", state |-> "returned",
                       answers |-> <<>>, writes |-> 0, fetches |-> 0,
                       olid |-> "OL1", result |-> Result("None")]
                 ELSE IF op = "get_no_identifier"
                 THEN [op |-> op, phase |-> "none", state |-> "raised",
                       answers |-> <<>>, writes |-> 0, fetches |-> 0,
                       olid |-> "", result |-> Result("ValueError")]
                 ELSE [op |-> op, phase |-> FirstPhase(op),
                       state |-> "pending", answers |-> <<>>, writes |-> 0,
                       fetches |-> 0, olid |-> GivenOlid(op),
                       result |-> Result("none")]
    /\ UNCHANGED <<job, fn, rerun, entity>>

\* one attempt of the pending request, and what backoff makes of it
Send ==
    /\ call.op # "none"
    /\ call.state = "pending"
    /\ \E a \in Answers :
         LET req == Request(call.op, call.phase)
             tries == Len(call.answers) + 1
             sent == [call EXCEPT !.answers = Append(call.answers, a),
                                  !.writes = IF Mutating(req)
                                             THEN call.writes + 1
                                             ELSE call.writes,
                                  !.fetches = IF call.phase = "record"
                                              THEN call.fetches + 1
                                              ELSE call.fetches]
         IN  call' =
               IF ~Raises(req, a)
               THEN [sent EXCEPT !.state = "answered"]
               ELSE IF Decorated(req) /\ ~giveup(a) /\ tries < max_tries
               THEN sent
               ELSE [sent EXCEPT
                       !.state = "raised",
                       !.result = IF call.phase = "author"
                                  THEN Result("Exception")
                                  ELSE Exc(a)]
    /\ UNCHANGED <<job, fn, rerun, entity>>

\* what the operation does with the response it got
Marshal ==
    /\ call.op # "none"
    /\ call.state = "answered"
    /\ \E ok \in BOOLEAN, more \in BOOLEAN :
         call' =
           CASE call.op \in SaveOps ->
                  [call EXCEPT !.state = "returned",
                               !.result = Result("response")]
             [] call.op = "login" ->
                  IF ok THEN [call EXCEPT !.state = "returned",
                                          !.result = Result("None")]
                  ELSE [call EXCEPT !.state = "raised",
                                    !.result = Result("ValueError")]
             [] call.op = "create_book" /\ call.phase = "post" ->
                  IF ok THEN [call EXCEPT !.phase = "record",
                                          !.state = "pending",
                                          !.answers = <<>>,
                                          !.olid = "OL1"]
                  ELSE [call EXCEPT !.state = "raised",
                                    !.result = Result("ValueError")]
             [] call.op = "get_by_bibkey" /\ call.phase = "lookup" ->
                  IF ok THEN [call EXCEPT !.phase = "record",
                                          !.state = "pending",
                                          !.answers = <<>>,
                                          !.olid = "OL1"]
                  ELSE [call EXCEPT !.state = "returned",
                                    !.result = Result("None")]
             [] call.op \in {"get_edition", "create_book", "get_by_bibkey"}
                /\ call.phase = "record" /\ ok /\ more ->
                  [call EXCEPT !.phase = "author", !.state = "pending",
                               !.answers = <<>>]
             [] OTHER ->
                  IF ok THEN [call EXCEPT !.state = "returned",
                                          !.result = Result("entity")]
                  ELSE [call EXCEPT !.state = "raised",
                                    !.result = Result("Exception")]
    /\ UNCHANGED <<job, fn, rerun, entity>>

NextClient == Invoke \/ Send \/ Marshal

SpecClient == InitClient /\ [][NextClient]_vars

\* a request that is pending is sent (backoff waits a finite time between
\* attempts), and an operation goes on with the response it has
SpecClientFair == SpecClient /\ WF_vars(Send) /\ WF_vars(Marshal)

-----------------------------------------------------------------------------
(* common.Entity: the identifiers of a Book or an Author *)

VALID_IDENTIFIERS ==
    <<"olid", "oclc", "isbn_10", "isbn_13", "isbns", "lccn", "goodreads",
      "librarything", "wikidata", "bookbrainz">>

Members(q) == {q[i] : i \in DOMAIN q}

\* a value of the identifiers dict: a list, a tuple or a str, with its items
Value(type, items) == [type |-> type, items |-> items]

Ids == {"i1", "i2"}

\* the isbns of an xisbn answer, with Python's len of each
Isbns == {"123456789", "1234567890", "1234567890123"}
StrLen(isbn) == CASE isbn = "123456789" -> 9
                  [] isbn = "1234567890" -> 10
                  [] isbn = "1234567890123" -> 13

\* f'isbn_{len(isbn)}'
isbn_key(n) == CASE n = 9 -> "isbn_9" [] n = 10 -> "isbn_10" [] n = 13 -> "isbn_13"

\* the id types given to the constructor and to add_id; "shelf" is none of
\* VALID_IDENTIFIERS
CtorTypes == {"olid", "oclc", "shelf"}
AddTypes == {"olid", "isbn_10", "shelf"}

CtorValues ==
    {Value("list", <<>>), Value("list", <<"i1">>), Value("list", <<"i1", "i1">>),
     Value("tuple", <<"i2">>), Value("str", <<"i1">>)}

\* identifiers=None, or a dict
CtorIdentifiers ==
    UNION {[ks -> CtorValues] : ks \in SUBSET CtorTypes}

\* the exception of _validate_identifiers, "none" if it raises nothing; the
\* dict is gone through in the order of its keys
validate_identifiers(identifiers) ==
    LET bad(k) == k \notin Members(VALID_IDENTIFIERS)
                  \/ identifiers[k].type \notin {"list", "tuple"}
        order == <<"olid", "oclc", "shelf", "lccn">>
        first == CHOOSE i \in DOMAIN order :
                    /\ order[i] \in DOMAIN identifiers /\ bad(order[i])
                    /\ \A j \in 1..(i - 1) :
                         ~(order[j] \in DOMAIN identifiers /\ bad(order[j]))
    IN  IF \A k \in DOMAIN identifiers : ~bad(k) THEN "none"
        ELSE IF order[first] \notin Members(VALID_IDENTIFIERS)
        THEN "AttributeError" ELSE "TypeError"

\* list(_ids): the members of a set as a list, in an order of the build's
Listings(S) ==
    {q \in [1..Cardinality(S) -> S] : Members(q) = S}

united_overwrites(identifiers, id_type, identifier) == {identifier}

\* _ids = {identifier}; if id_type in self.identifiers: _ids = _ids.union(...)
united(identifiers, id_type, identifier) ==
    {identifier} \cup (IF id_type \in DOMAIN identifiers
                       THEN Members(identifiers[id_type].items) ELSE {})

\* self.identifiers[id_type] = list(_ids)
add_id(identifiers, id_type, listing) ==
    [k \in DOMAIN identifiers \cup {id_type} |->
        IF k = id_type THEN Value("list", listing) ELSE identifiers[k]]

NoLast == [id_type |-> "", identifier |-> ""]

InitEntity ==
    /\ JobIdle
    /\ fn = NoFn
    /\ call = NoCall
    /\ rerun = NoRerun
    /\ entity = NoEntity

\* Book(...) or Author(...): Entity.__init__ validates the dict it is given
Construct ==
    /\ entity = NoEntity
    /\ \E cls \in {"Book", "Author"}, ids \in CtorIdentifiers :
         LET error == validate_identifiers(ids)
         IN  entity' = IF error = "none"
                       THEN [state |-> "live", cls |-> cls, origin |-> "ctor",
                             identifiers |-> ids, last |-> NoLast,
                             error |-> "none"]
                       ELSE [state |-> "raised", cls |-> cls, origin |-> "ctor",
                             identifiers |-> <<>>, last |-> NoLast,
                             error |-> error]
    /\ UNCHANGED <<job, fn, call, rerun>>

\* Book.xisbn_to_books builds a book of an edition of the answer, with the
\* edition's oclcnum and lccn as they are
XisbnBook ==
    /\ entity = NoEntity
    /\ \E oclc \in {Value("list", <<>>), Value("list", <<"i1">>),
                    Value("str", <<"i1">>)} :
         LET ids == [k \in {"oclc", "lccn"} |->
                        IF k = "oclc" THEN oclc ELSE Value("list", <<>>)]
             error == validate_identifiers(ids)
         IN  entity' = IF error = "none"
                       THEN [state |-> "live", cls |-> "Book", origin |-> "xisbn",
                             identifiers |-> ids, last |-> NoLast,
                             error |-> "none"]
                       ELSE [state |-> "raised", cls |-> "Book",
                             origin |-> "xisbn", identifiers |-> <<>>,
                             last |-> NoLast, error |-> error]
    /\ UNCHANGED <<job, fn, call, rerun>>

AddId ==
    /\ entity.state = "live"
    /\ entity.origin = "ctor"
    /\ \E id_type \in AddTypes, identifier \in Ids :
       \E listing \in Listings(united(entity.identifiers, id_type, identifier)) :
         entity' = [entity EXCEPT
                      !.identifiers = add_id(entity.identifiers, id_type, listing),
                      !.last = [id_type |-> id_type, identifier |-> identifier]]
    /\ UNCHANGED <<job, fn, call, rerun>>

\* for isbn in isbns: book.add_id(f'isbn_{len(isbn)}', isbn)
XisbnAddId ==
    /\ entity.state = "live"
    /\ entity.origin = "xisbn"
    /\ \E isbn \in Isbns :
         LET id_type == isbn_key(StrLen(isbn))
         IN  \E listing \in Listings(united(entity.identifiers, id_type, isbn)) :
                  entity' = [entity EXCEPT
                      !.identifiers = add_id(entity.identifiers, id_type, listing),
                      !.last = [id_type |-> id_type, identifier |-> isbn]]
    /\ UNCHANGED <<job, fn, call, rerun>>

NextEntity == Construct \/ XisbnBook \/ AddId \/ XisbnAddId

SpecEntity == InitEntity /\ [][NextEntity]_vars

-----------------------------------------------------------------------------
(* How the process of a run ends *)

\* what logger.exception("") writes after its empty message
MsgException == "Traceback (most recent call last):"

\* if '__name__' == __name__: the string '__name__' against the module's name
ModuleNames == {"__main__", "making_a_bot"}
main_guard(name) == "__name__" = name

\* sys.exit() without an argument and a script that comes to its end give
\* status 0; an exception that nothing catches gives status 1
ExitStatus(p) == IF p = "aborted" THEN 1 ELSE 0

\* what is logged of the exception that aborts a run: bot.logger.exception("")
\* stands in the except clause under the guard, and nowhere else
AbortLog(name) == IF main_guard(name) THEN <<LogEv(MsgException)>> ELSE <<>>

-----------------------------------------------------------------------------
(* Properties *)

IsPut(e) == e.ev = "put"
IsGet(e) == e.ev = "get"
IsSuppressed(e) == e.ev = "log" /\ e.msg = MsgSuppressed

Terminated == pc \in {"exhausted", "exited", "aborted"}

\* neither a limit nor a flag on the command line, no constructor argument
NoArguments ==
    /\ argv = [limit |-> NotGiven, write_changes |-> FALSE]
    /\ ctor = [limit |-> NotGiven, write_changes |-> FALSE]

\* C1: every call of save invokes save_fn exactly once when write_changes is
\* true; when it is false save_fn is not invoked and exactly one line saying
\* that the modification was not made is logged.
C1_DryRunGate ==
    [][saves' = saves + 1 =>
         IF write_changes
         THEN /\ puts' = puts + 1
              /\ Count(events', IsPut) = 1
              /\ Count(events', IsSuppressed) = 0
         ELSE /\ puts' = puts
              /\ Count(events', IsPut) = 0
              /\ Count(events', IsSuppressed) = 1]_vars

C1_Witness ==
    /\ ~write_changes /\ saves = 1 /\ puts = 0
    /\ Count(events, IsSuppressed) = 1

\* C2: with writes enabled and a limit L > 0 the persistence action is invoked
\* at most L times, and once it has been invoked L times the process has
\* terminated, so no later row is mutated.
C2_AtMostLimitWrites ==
    (write_changes /\ limit > 0) =>
        /\ puts <= limit
        /\ (puts = limit => pc \in {"exited", "aborted"})
        /\ (pc = "exited" => puts = limit)

C2_Witness ==
    /\ write_changes /\ limit = 1 /\ puts = 1
    /\ pc = "exited" /\ nrows = 1 /\ Count(events, IsPut) = 1

\* C3: with limit 0 save never ends the process: every row that matched and
\* was verified is passed to save, and the run goes on scanning after it
\* (unless the write itself raised).
C3_ZeroIsUnlimited ==
    [][limit = 0 =>
         /\ pc' # "exited"
         /\ (nrows' = nrows + 1 /\ LocalMatch(row') /\ LiveMatch(live') =>
               /\ saves' = saves + 1
               /\ (pc' = "scanning" \/ (write_changes /\ pc' = "aborted")))]_vars

C3_Witness == limit = 0 /\ changed >= 3 /\ pc = "exhausted"

\* C4: a call of save that gets past the gate adds exactly 1 to changed, with
\* writes enabled or not; the process exits on that call exactly when the
\* limit is not 0 and the new value has reached it; nothing else changes
\* changed.
C4_CounterSteps ==
    [][/\ (saves' = saves + 1 /\ pc' # "aborted" => changed' = changed + 1)
       /\ (changed' # changed => saves' = saves + 1 /\ changed' = changed + 1)
       /\ (changed' = changed + 1 =>
             ((pc' = "exited") <=> (limit # 0 /\ changed' >= limit)))]_vars

C4_Witness == ~write_changes /\ changed = 2 /\ saves = 2 /\ puts = 0

\* C5: with a limit L > 0, changed never exceeds L + 1.
C5_CounterBound == limit > 0 => changed <= limit + 1

C5_Witness == limit = 2 /\ changed = 2 /\ Terminated

\* C6: with a limit L > 0, exit is requested by the L-th call of save and by
\* none before it; changed is then L (it starts at 0), and it is never
\* greater than the limit.
C6_ExitAtLimit ==
    limit > 0 =>
        /\ changed <= limit
        /\ (pc = "exited" => changed = limit /\ saves = limit)
        /\ (saves < limit => pc # "exited")

C6_Witness == ~write_changes /\ limit = 2 /\ saves = 2 /\ pc = "exited"

\* C7: the limit given on the command line is the job's limit: --limit 0
\* gives limit 0 (unlimited), --limit n > 0 gives limit n.
C7_CommandLineLimit == argv.limit # NotGiven => limit = argv.limit[1]

\* C8: a job built with no arguments has changed = 0, limit = 1 and writes
\* disabled, and never persists a change; writes are enabled exactly when the
\* constructor flag or the command-line flag is set.
C8_Defaults ==
    /\ (pc = "constructed" => changed = 0)
    /\ (NoArguments => limit = 1 /\ ~write_changes /\ puts = 0)
    /\ (write_changes <=> (ctor.write_changes \/ argv.write_changes))
    /\ (~write_changes => puts = 0)

C8_Witness == NoArguments /\ saves = 1 /\ puts = 0 /\ pc = "exited"

\* C9: a row whose dump snapshot does not match (not an edition, or a title
\* that needs no trim) causes no fetch and no write, and the scan goes on.
C9_NoCallForNonMatching ==
    [][(nrows' = nrows + 1 /\ row'.json_ok /\ ~LocalMatch(row')) =>
         /\ fetches' = fetches /\ puts' = puts
         /\ Count(events', IsGet) = 0 /\ Count(events', IsPut) = 0
         /\ pc' = "scanning"]_vars

C9_Witness ==
    /\ nrows >= 2 /\ row.json_ok /\ ~LocalMatch(row)
    /\ fetches = 0 /\ puts = 0 /\ pc = "exhausted"

\* C10: a row that matches locally whose live record no longer matches
\* (another type, deleted, or a title that needs no trim) is skipped: no
\* persistence call, no change of the counter, and the scan goes on.
C10_StaleRowSkipped ==
    [][(nrows' = nrows + 1 /\ LocalMatch(row') /\ live'.status = "ok"
        /\ ~(live'.type = EditionType /\ needs_trim(live'.title))) =>
         /\ fetches' = fetches + 1
         /\ puts' = puts /\ saves' = saves /\ changed' = changed
         /\ Count(events', IsPut) = 0
         /\ pc' = "scanning"]_vars

C10_Witness ==
    /\ LocalMatch(row) /\ live.status = "ok" /\ live.type = EditionType
    /\ ~needs_trim(live.title) /\ saves = 0 /\ fetches = 2 /\ pc = "scanning"

IsLog(e) == e.ev = "log"
IsAudit(e) == e.ev = "log" /\ e.msg = MsgAudit

C12_MutateOrder ==
    [][saves' = saves + 1 =>
         LET e == events' IN
         /\ Len(e) >= 3
         /\ e[1] = GetEv(nrows')
         /\ e[2] = AuditEv(nrows', live'.title, strip(live'.title))
         /\ IF write_changes
            THEN \E w \in PutOutcomes : e[3] = PutEv(nrows', e[2].new, w)
            ELSE e[3] = LogEv(MsgSuppressed)
         /\ IF pc' = "aborted"
            THEN Len(e) = 3 /\ changed' = changed /\ write_changes
            ELSE /\ changed' = changed + 1
                 /\ IF limit # 0 /\ changed' >= limit
                    THEN /\ Len(e) = 5 /\ e[4] = LogEv(MsgLimit)
                         /\ e[5] = ExitEv /\ pc' = "exited"
                    ELSE Len(e) = 3 /\ pc' = "scanning"]_vars

C12_Witness ==
    /\ write_changes /\ pc = "exited" /\ Len(events) = 5
    /\ IsAudit(events[2]) /\ IsPut(events[3]) /\ events[5] = ExitEv

\* C13: a row whose field 4 is not JSON aborts the run at that row: nothing
\* is fetched, written or counted for it, no step follows the abort, and
\* what earlier rows did stays as it is.
C13_DecodeErrorAborts ==
    [][/\ pc # "aborted"
       /\ (nrows' = nrows + 1 /\ ~row'.json_ok) =>
             /\ pc' = "aborted" /\ events' = <<>>
             /\ changed' = changed /\ puts' = puts
             /\ fetches' = fetches /\ saves' = saves]_vars

C13_Witness ==
    /\ pc = "aborted" /\ row = BadRow /\ nrows = 2
    /\ puts = 1 /\ changed = 1

RECURSIVE Join(_, _)
Join(fs, d) ==
    IF Len(fs) = 0 THEN <<>>
    ELSE IF Len(fs) = 1 THEN fs[1]
    ELSE fs[1] \o <<d>> \o Join(Tail(fs), d)

RECURSIVE Repunit(_)
Repunit(n) == IF n = 0 THEN 0 ELSE 10 * Repunit(n - 1) + 1

Occurrences(t, c) == Cardinality({i \in 1..Len(t) : t[i] = c})

\* the text between the 4th delimiter of t and the next one (or the end)
FieldFour(t, d) ==
    LET at == {i \in 1..Len(t) : t[i] = d}
        nth(i) == Cardinality({j \in at : j <= i})
        from == CHOOSE i \in at : nth(i) = 4
        upto == IF \E i \in at : nth(i) = 5
                THEN CHOOSE i \in at : nth(i) = 5
                ELSE Len(t) + 1
    IN  SubSeq(t, from + 1, upto - 1)

\* an integer written with the digit 1, between optional whitespace
IsIntegerText(f) ==
    \E i, j \in 1..Len(f) :
        /\ i <= j
        /\ \A k \in 1..Len(f) :
             IF i <= k /\ k <= j THEN f[k] = "1" ELSE f[k] \in JsonWhitespace

ProcessRowDone == fn.op = "process_row" /\ fn.done

\* C14: process_row returns the fields of the row split on the delimiter, in
\* order, with the JSON value of field 4; a row given as bytes and the same
\* row given as text have the same result.
C14_ProcessRow ==
    (ProcessRowDone /\ fn.out.raised = "none") =>
        LET f == fn.out.fields
            d == fn.delimiter
        IN  /\ Len(f) >= 5
            /\ \A i \in 1..Len(f) : Occurrences(f[i], d) = 0
            /\ fn.row.kind = "str" =>
                 /\ Join(f, d) = fn.row.data
                 /\ process_row(BytesRow(encode(fn.row.data)), d) = fn.out
            /\ fn.row.kind = "bytes" => encode(Join(f, d)) = fn.row.data
            /\ fn.out.parsed = Repunit(Occurrences(f[5], "1"))

C14_Witness ==
    /\ ProcessRowDone /\ fn.row.kind = "bytes" /\ fn.delimiter = Tab
    /\ fn.out.raised = "none" /\ Len(fn.out.fields) = 5 /\ fn.out.parsed = 1

\* C15: process_row raises, and returns no pair, exactly when the row has
\* fewer than five fields or field 4 is not JSON (or the bytes cannot be
\* decoded at all); it catches none of these errors.
C15_ProcessRowFails ==
    ProcessRowDone =>
        LET d == fn.delimiter
            readable == fn.row.kind = "str" \/
                        \A i \in 1..Len(fn.row.data) : fn.row.data[i] # BadByte
            t == IF fn.row.kind = "str" THEN fn.row.data
                 ELSE [i \in 1..Len(fn.row.data) |-> Chr(fn.row.data[i])]
            bad == \/ ~readable
                   \/ Occurrences(t, d) < 4
                   \/ ~IsIntegerText(FieldFour(t, d))
        IN  /\ (fn.out.raised # "none") <=> bad
            /\ bad => fn.out.fields = <<>>

C15_Witness ==
    /\ ProcessRowDone /\ fn.row.kind = "str"
    /\ Occurrences(fn.row.data, fn.delimiter) = 4
    /\ fn.out.raised = "JSONDecodeError"

\* the words of the claim
ClaimTrue ==
    {<<"y", "e", "s">>, <<"t", "r", "u", "e">>, <<"t">>, <<"y">>, <<"1">>}
ClaimFalse ==
    {<<"n", "o">>, <<"f", "a", "l", "s", "e">>, <<"f">>, <<"n">>, <<"0">>}

IsCased(t, w) ==
    /\ Len(t) = Len(w)
    /\ \A i \in 1..Len(w) : t[i] = w[i] \/ t[i] = upper_char(w[i])

C18_SameLogTwice ==
    (rerun.run = 2 /\ pc = "exhausted") =>
        rerun.console[2] = rerun.console[1]

\* C19 as stated: whatever fails, an operation of the client sends its
\* mutating request (save PUT, delete, redirect, save_many, book-creation
\* POST) at most once.
C19_MutatingSentOnce ==
    call.op # "none" => call.writes <= 1

\* C19: entity saves, delete, redirect and save_many send their request at
\* most once; a mutating request is sent again only by book creation, only
\* after an attempt that raised without a response, and at most max_tries
\* times in all.
C19_OnlyCreationResent ==
    [][(call.op # "none" /\ call.writes >= 1 /\ call'.writes > call.writes)
          => /\ call.op = "create_book"
             /\ call.answers[Len(call.answers)] = NoAnswer
             /\ call'.writes <= max_tries]_vars

C19_Witness ==
    /\ call.op = "create_book"
    /\ call.writes = max_tries
    /\ call.state = "raised"

\* C20: when the fetch of the record asked of OpenLibrary.get (edition, work
\* or author) is answered with an HTTP error status, the get raises that
\* HTTP error, unless the status is 5xx and the fetch is still to be tried
\* again; it never goes on to build or return an entity.
C20_GetRaisesHttpError ==
    (/\ call.op \in GetOps
     /\ call.phase = "record"
     /\ call.answers # <<>>
     /\ raise_for_status(call.answers[Len(call.answers)]))
    => LET a == call.answers[Len(call.answers)]
       IN  \/ call.state = "raised" /\ call.result = HTTPError(a.status)
           \/ /\ call.state = "pending"
              /\ a.status >= 500
              /\ Len(call.answers) < max_tries

C20_Witness ==
    /\ call.op = "get_edition"
    /\ call.state = "raised"
    /\ call.result = HTTPError(404)

PutFailed(e) == e.ev = "put" /\ e.msg \in {"http_error", "exception"}

\* C21: a write that fails in a mutation, by an exception or by an error
\* HTTP status, aborts the run: the change is not counted and no row follows.
C21_WriteFailureFatal ==
    [][Count(events', PutFailed) > 0 /\ nrows' = nrows + 1
          => pc' = "aborted" /\ changed' = changed]_vars

\* C22: a run that ends at the end of the dump or on the limit ends with
\* status 0; a run aborted by an exception ends with a status other than 0,
\* and the exception is in the log by then.
C22_ExitStatus ==
    /\ pc \in {"exhausted", "exited"} => ExitStatus(pc) = 0
    /\ pc = "aborted" =>
         /\ ExitStatus(pc) # 0
         /\ \A name \in ModuleNames :
              LET logged == events \o AbortLog(name)
              IN  \E i \in DOMAIN logged : logged[i] = LogEv(MsgException)

AddIdStep == entity.state = "live" /\ entity'.state = "live" /\ entity' # entity

HeldBefore(id_type) ==
    IF id_type \in DOMAIN entity.identifiers
    THEN Members(entity.identifiers[id_type].items) ELSE {}

\* C23: after add_id(id_type, identifier) the identifiers of id_type are the
\* ones held before together with the one added, each once; adding one that
\* is already held leaves them the same set; the identifiers of every other
\* type are as they were.
C23_AddIdUnion ==
    [][AddIdStep =>
         LET t == entity'.last.id_type
             now == entity'.identifiers[t]
         IN  /\ t \in DOMAIN entity'.identifiers
             /\ now.type = "list"
             /\ Members(now.items) = HeldBefore(t) \cup {entity'.last.identifier}
             /\ Len(now.items) = Cardinality(Members(now.items))
             /\ entity'.last.identifier \in HeldBefore(t)
                  => Members(now.items) = HeldBefore(t)
             /\ DOMAIN entity'.identifiers = DOMAIN entity.identifiers \cup {t}
             /\ \A k \in DOMAIN entity.identifiers \ {t} :
                  entity'.identifiers[k] = entity.identifiers[k]]_vars

C23_Witness ==
    /\ entity.state = "live" /\ entity.last.id_type = "olid"
    /\ "olid" \in DOMAIN entity.identifiers /\ "oclc" \in DOMAIN entity.identifiers
    /\ entity.identifiers["olid"].items = <<"i2", "i1">>
    /\ entity.identifiers["oclc"] = Value("tuple", <<"i2">>)

\* C30: the keys of the identifiers of a Book or an Author are all of
\* VALID_IDENTIFIERS and the values are all lists, whatever add_id calls
\* were made.
C30_IdentifiersValid ==
    entity.state = "live" =>
        \A k \in DOMAIN entity.identifiers :
            /\ k \in Members(VALID_IDENTIFIERS)
            /\ entity.identifiers[k].type = "list"

JsonDone(cls) == fn.op = "json" /\ fn.done /\ fn.cls = cls

\* C24: the json() of an Edition has key '/books/<olid>', has works =
\* [{'key': '/works/<work_olid>'}] when a work olid is set, lists each author
\* as {'key': '/authors/<olid>'}, and has neither 'work_olid' nor 'cover'
\* among its keys.
C24_EditionJson ==
    JsonDone("Edition") =>
        LET given == fn.call
            data == fn.out
        IN  /\ data["key"] = Path("/books/", "OL1M")
            /\ given.work_olid # None =>
                 /\ "works" \in DOMAIN data
                 /\ data["works"] = List(<<KeyRef("/works/", given.work_olid.v)>>)
            /\ given.authors # <<>> =>
                 /\ "authors" \in DOMAIN data
                 /\ Len(data["authors"].v) = Len(given.authors)
                 /\ \A i \in DOMAIN given.authors :
                      data["authors"].v[i] = KeyRef("/authors/", given.authors[i])
            /\ "work_olid" \notin DOMAIN data
            /\ "cover" \notin DOMAIN data

TextFields == {"description", "notes"}

IsText(x) == x.t \in {"str", "text"}

\* C27 as stated: a description or notes given as the string s or as the
\* text object of s is stored as s, json() emits the text object of s, and
\* an entity built from that json has the same description and notes.
C27_TextRoundTrip ==
    (fn.op = "json" /\ fn.done) =>
        \A f \in TextFields :
            LET x == fn.call.kwargs[f]
            IN  IsText(x) =>
                  /\ fn.self[f] = Str(x.v)
                  /\ f \in DOMAIN fn.out
                  /\ fn.out[f] = TextObj(x.v)
                  /\ fn.again[f] = fn.self[f]

\* C27: the same for a string s that is not empty; an empty s is stored as
\* the empty string, json() has no such key, and the entity built from that
\* json has None there.
C27_NonEmptyTextRoundTrip ==
    (fn.op = "json" /\ fn.done) =>
        \A f \in TextFields :
            LET x == fn.call.kwargs[f]
            IN  /\ IsText(x) => fn.self[f] = Str(x.v)
                /\ (IsText(x) /\ x.v # "") =>
                     /\ f \in DOMAIN fn.out
                     /\ fn.out[f] = TextObj(x.v)
                     /\ fn.again[f] = fn.self[f]
                /\ (IsText(x) /\ x.v = "") =>
                     /\ f \notin DOMAIN fn.out
                     /\ fn.again[f] = None

C27_Witness ==
    /\ JsonDone("Edition")
    /\ fn.call.kwargs["description"] = TextObj("d")
    /\ fn.call.kwargs["notes"] = Str("d")
    /\ fn.out["description"] = TextObj("d")
    /\ fn.again["notes"] = Str("d")

InGetOlResponse ==
    call.op # "none" /\ call.phase \in {"lookup", "record", "author"}

Is4xx(a) == a.kind = "response" /\ a.status \in 400..499

Failed(a) == a.kind = "error" \/ (a.kind = "response" /\ a.status >= 400)

Retriable(a) == Failed(a) /\ ~Is4xx(a)

\* C25: a call of _get_ol_response makes at most max_tries attempts; every
\* attempt but the last raised without a 4xx status; an attempt answered
\* with a 4xx status, and the attempt number max_tries if it raises, end the
\* call with the exception; and the call always ends, with a response or an
\* exception.
C25_BoundedAttempts ==
    /\ [](InGetOlResponse =>
            LET n == Len(call.answers)
            IN  /\ n <= max_tries
                /\ \A i \in 1..(n - 1) : Retriable(call.answers[i])
                /\ call.state = "pending" =>
                     n < max_tries /\ (n > 0 => Retriable(call.answers[n]))
                /\ (n > 0 /\ Failed(call.answers[n])
                    /\ (Is4xx(call.answers[n]) \/ n = max_tries))
                     => call.state = "raised"
                /\ (n > 0 /\ ~Failed(call.answers[n]))
                     => call.state \in {"answered", "returned", "raised"})
    /\ ((InGetOlResponse /\ call.state = "pending")
          ~> (InGetOlResponse /\ call.state \in {"answered", "raised"}))

C25_Witness ==
    /\ call.op = "get_work" /\ call.state = "raised"
    /\ Len(call.answers) = max_tries
    /\ call.answers[1] = NoAnswer /\ call.answers[2] = Answer(500)

\* C26: Edition.get with a bibliographic key alone makes the bibkeys lookup
\* first and fetches the edition only afterwards and only with the olid that
\* the lookup produced; a lookup without a match returns None and no edition
\* is fetched; with no identifier at all ValueError is raised and nothing is
\* sent.
C26_LookupBeforeFetch ==
    [][/\ call'.op = "get_by_bibkey" =>
            /\ call'.fetches > 0 => call'.olid # ""
            /\ (call'.olid # "" /\ call.op = "get_by_bibkey" /\ call.olid = "")
                 => /\ call.phase = "lookup" /\ call.state = "answered"
                    /\ ~Failed(call.answers[Len(call.answers)])
                    /\ call.fetches = 0 /\ call'.fetches = 0
            /\ call'.phase = "lookup" => call'.fetches = 0 /\ call'.olid = ""
            /\ (call'.state = "returned" /\ call'.result = Result("None"))
                 => call'.phase = "lookup" /\ call'.fetches = 0
       /\ call'.op = "get_no_identifier" =>
            /\ call'.state = "raised" /\ call'.result = Result("ValueError")
            /\ call'.answers = <<>> /\ call'.fetches = 0 /\ call'.writes = 0]_vars

C26_Witness ==
    /\ call.op = "get_by_bibkey" /\ call.state = "returned"
    /\ call.result = Result("entity") /\ call.fetches = 2 /\ call.olid = "OL1"

\* C28: with no limit on the command line, the limit given to the
\* constructor is the limit of the job.
C28_ConstructorLimit ==
    (argv.limit = NotGiven /\ ctor.limit # NotGiven) => limit = ParamLimit(ctor)

PutRaised(e) == e.ev = "put" /\ e.msg = "exception"
IsExit(e) == e = ExitEv \/ e = LogEv(MsgLimit)

\* C29: when save_fn raises inside save, the exception leaves save: the run
\* is aborted, changed is what it was, and neither the limit line nor the
\* exit follows; no call of save changes limit or write_changes.
C29_RaisingSaveFn ==
    [][/\ saves' = saves + 1 =>
            /\ limit' = limit /\ write_changes' = write_changes
            /\ (Count(events', PutRaised) > 0) = (pc' = "aborted")
       /\ (saves' = saves + 1 /\ Count(events', PutRaised) > 0) =>
            /\ write_changes
            /\ puts' = puts + 1
            /\ changed' = changed
            /\ Count(events', IsExit) = 0
            /\ events'[Len(events')] = PutEv(nrows', strip(live'.title), "exception")]_vars

C29_Witness ==
    /\ pc = "aborted" /\ Count(events, PutRaised) = 1
    /\ saves = 2 /\ changed = 1 /\ puts = 2

====
